---------------------------- MODULE Spec2Model ----------------------------
(***************************************************************************)
(* Model of marianocabezas/trees: the encoder-decoder network              *)
(* (src/models.py, Autoencoder2D / Unet2D), the tiled inference loop       *)
(* (Unet2D.test) and the leave-one-mosaic-out orchestrator                 *)
(* (src/tree_detection.py, train_test_net).                                *)
(*                                                                         *)
(* Three specifications share the module:                                  *)
(*   SpecNet  - construction and forward pass of the network (shapes),     *)
(*   SpecTest - one call of Unet2D.test,                                   *)
(*   Spec     - one run of train_test_net.                                 *)
(* Python sequences are 0-based; the model's sequences are 1-based, so a   *)
(* Python index k is the model's index k + 1.                              *)
(***************************************************************************)
EXTENDS Integers, Sequences, FiniteSets, TLC

VARIABLES
    \* ---- network (SpecNet)
    net,          \* the constructed Autoencoder2D / Unet2D object
    x_in,         \* shape of the tensor given to forward: [n, c, h, w]
    input_s,      \* shape of the running tensor inside forward: [c, h, w]
    down_inputs,  \* the skip buffers pushed by the down path (shapes)
    up_log,       \* per executed up stage: skip index used, widths seen
    fpc,          \* position inside forward
    ferr,         \* the exception forward raised, "" when none
    \* ---- Unet2D.test (SpecTest)
    call,         \* the arguments of the call: data and keyword names
    tpc,          \* position inside test
    terr,         \* the exception test raised, "" when none
    case_i,       \* i of "for i, im in enumerate(data)"
    limits,       \* tuple (one list per axis of data.shape)
    limits_product, \* list of (xi, xj) pairs
    pi,           \* index of the next pair of limits_product
    written,      \* regions of seg_i assigned so far in this case
    forwards,     \* number of forward passes run so far
    seg,          \* the result list
    \* ---- train_test_net (Spec)
    dir,          \* the mosaics directory: ids of gt, DEM and mosaic files
    shape,        \* spatial shape of the mosaics [h, w]
    ratio,        \* the ratio argument
    disk,         \* persisted model artifacts, keys <<ratio, case>>
    pc,           \* position inside train_test_net
    err,          \* the exception train_test_net raised, "" when none
    i,            \* fold index (1-based position in cases)
    fold,         \* the current fold's split
    log,          \* what happened so far, in order
    outputs       \* prediction / uncertainty files written

netVars  == <<net, x_in, input_s, down_inputs, up_log, fpc, ferr>>
testVars == <<call, tpc, terr, case_i, limits, limits_product, pi, written,
              forwards, seg>>
foldVars == <<dir, shape, ratio, disk, pc, err, i, fold, log, outputs>>
vars     == <<netVars, testVars, foldVars>>

\* ------------------------------------------------------------------------
\* Bounds of the model
\* ------------------------------------------------------------------------
MaxDepth == 3      \* longest conv_filters list
MaxWidth == 2      \* largest channel width
MaxSide == 5       \* largest H, W given to forward

\* ------------------------------------------------------------------------
\* Python helpers
\* ------------------------------------------------------------------------
Reverse(s) == [k \in 1..Len(s) |-> s[Len(s) + 1 - k]]

Min(a, b) == IF a <= b THEN a ELSE b

\* zip(a, b): pairs up to the shorter argument
Zip(a, b) == [k \in 1..Min(Len(a), Len(b)) |-> <<a[k], b[k]>>]

\* s[:-n] for n >= 1
DropLast(s, n) == SubSeq(s, 1, Len(s) - n)

RECURSIVE Pow2(_)
Pow2(e) == IF e = 0 THEN 1 ELSE 2 * Pow2(e - 1)

Odd(k) == k % 2 = 1

\* ------------------------------------------------------------------------
\* Autoencoder2D.__init__ : the channel tables
\* ------------------------------------------------------------------------
\* zip([n_inputs] + conv_filters[:-2], conv_filters[:-1])
DownTable(cf, n_in) == Zip(<<n_in>> \o DropLast(cf, 2), DropLast(cf, 1))

\* self.u : conv_filters[-2] -> conv_filters[-1]
UTable(cf) == <<cf[Len(cf) - 1], cf[Len(cf)]>>

\* down_out = conv_filters[-2::-1]
DownOut(cf) == Reverse(DropLast(cf, 1))

\* up_out = conv_filters[:0:-1]
UpOut(cf) == Reverse(SubSeq(cf, 2, Len(cf)))

\* deconv_in = map(sum, zip(down_out, up_out))
DeconvIn(cf) ==
    [k \in 1..Len(Zip(DownOut(cf), UpOut(cf))) |->
        Zip(DownOut(cf), UpOut(cf))[k][1] + Zip(DownOut(cf), UpOut(cf))[k][2]]

\* a plausible slip: the up stages declared with the up-path width only,
\* forgetting the concatenated skip buffer
UpTableNoSkip(cf) == Zip(UpOut(cf), DownOut(cf))

\* zip(deconv_in, down_out)
UpTable(cf) == Zip(DeconvIn(cf), DownOut(cf))

\* ------------------------------------------------------------------------
\* torch layers, on shapes.  A layer returns [ok, c, h, w, why].
\* ------------------------------------------------------------------------
Shape(c, h, w) == [ok |-> TRUE, c |-> c, h |-> h, w |-> w, why |-> ""]
Raise(why) == [ok |-> FALSE, c |-> 0, h |-> 0, w |-> 0, why |-> why]

\* nn.Conv2d(f_in, f_out, k, padding=k // 2), stride 1
Conv2d(t, f_in, f_out, k) ==
    IF t.c # f_in THEN Raise("channels")
    ELSE IF t.h + 2 * (k \div 2) - k + 1 < 1
            \/ t.w + 2 * (k \div 2) - k + 1 < 1 THEN Raise("size")
    ELSE Shape(f_out, t.h + 2 * (k \div 2) - k + 1,
                      t.w + 2 * (k \div 2) - k + 1)

\* nn.ConvTranspose2d(f_in, f_out, k, padding=k // 2), stride 1
ConvTranspose2d(t, f_in, f_out, k) ==
    IF t.c # f_in THEN Raise("channels")
    ELSE IF (t.h - 1) - 2 * (k \div 2) + k < 1
            \/ (t.w - 1) - 2 * (k \div 2) + k < 1 THEN Raise("size")
    ELSE Shape(f_out, (t.h - 1) - 2 * (k \div 2) + k,
                      (t.w - 1) - 2 * (k \div 2) + k)

\* F.max_pool2d(t, 2): floor((h - 2) / 2) + 1, an empty output raises
MaxPool2d(t) ==
    IF t.h \div 2 < 1 \/ t.w \div 2 < 1 THEN Raise("pool")
    ELSE Shape(t.c, t.h \div 2, t.w \div 2)

\* F.interpolate(t, size=i.size()[2:])
Interpolate(t, skip) == Shape(t.c, skip.h, skip.w)

\* torch.cat((a, b), dim=1)
Cat(a, b) ==
    IF a.h # b.h \/ a.w # b.w THEN Raise("cat")
    ELSE Shape(a.c + b.c, a.h, a.w)

\* a plausible slip: the up path concatenates without resampling even when
\* pooling is on
UpInputNoResample(t, skip, pooling) == Cat(t, skip)

\* the tensor an up stage receives (models.py 81-97)
UpInput(t, skip, pooling) ==
    IF pooling THEN Cat(Interpolate(t, skip), skip) ELSE Cat(t, skip)

\* nn.BatchNorm2d in training mode refuses a single value per channel
BatchNorm2d(t, n, training) ==
    IF training /\ n * t.h * t.w = 1 THEN Raise("batchnorm") ELSE t

\* self.seg followed by softmax over dim 1 (models.py 121-126, 163)
SegHead(t, n, c0, n_out, training) ==
    LET a == Conv2d(t, c0, c0, 1)
        b == IF a.ok THEN BatchNorm2d(a, n, training) ELSE a
    IN  IF b.ok THEN Conv2d(b, c0, n_out, 1) ELSE b

\* ------------------------------------------------------------------------
\* SpecNet: construction, then one forward pass
\* ------------------------------------------------------------------------
FilterLists ==
    UNION {[1..len -> 1..MaxWidth] : len \in 2..MaxDepth}

NewNet(cf, n_in, n_out, k, pooling, training) ==
    [conv_filters |-> cf, n_inputs |-> n_in, n_outputs |-> n_out,
     kernel_size |-> k, pooling |-> pooling, training |-> training,
     down |-> DownTable(cf, n_in), u |-> UTable(cf), up |-> UpTable(cf)]

NoNet == NewNet(<<1, 1>>, 1, 1, 1, FALSE, FALSE)

NetIdle ==
    /\ net = NoNet
    /\ x_in = [n |-> 0, c |-> 0, h |-> 0, w |-> 0]
    /\ input_s = Shape(0, 0, 0)
    /\ down_inputs = <<>>
    /\ up_log = <<>>
    /\ fpc = "idle"
    /\ ferr = ""

NetInit ==
    /\ \E cf \in FilterLists, n_in \in {1, 4}, k \in {1, 2, 3},
          pooling \in BOOLEAN, training \in BOOLEAN :
          net = NewNet(cf, n_in, 2, k, pooling, training)
    /\ \E n \in {1, 2}, h \in 1..MaxSide, w \in 1..MaxSide :
          x_in = [n |-> n, c |-> net.n_inputs, h |-> h, w |-> w]
    /\ input_s = Shape(x_in.c, x_in.h, x_in.w)
    /\ down_inputs = <<>>
    /\ up_log = <<>>
    /\ fpc = "down"
    /\ ferr = ""

Fail(why) ==
    /\ fpc' = "error"
    /\ ferr' = why
    /\ UNCHANGED <<input_s, down_inputs, up_log>>

\* one iteration of "for c in self.down" (models.py 67-74); after the last
\* one the bottleneck self.u is next
DownStage ==
    /\ fpc = "down"
    /\ Len(down_inputs) < Len(net.down)
    /\ LET st == net.down[Len(down_inputs) + 1]
           out == Conv2d(input_s, st[1], st[2], net.kernel_size)
           nxt == IF net.pooling /\ out.ok THEN MaxPool2d(out) ELSE out
       IN  IF ~out.ok THEN Fail(out.why)
           ELSE IF ~nxt.ok
           THEN /\ fpc' = "error"
                /\ ferr' = nxt.why
                /\ down_inputs' = Append(down_inputs, out)
                /\ UNCHANGED <<input_s, up_log>>
           ELSE /\ down_inputs' = Append(down_inputs, out)
                /\ input_s' = nxt
                /\ fpc' = IF Len(down_inputs) + 1 = Len(net.down)
                          THEN "u" ELSE "down"
                /\ UNCHANGED <<up_log, ferr>>
    /\ UNCHANGED <<net, x_in, testVars, foldVars>>

\* self.u (models.py 76-77)
Bottleneck ==
    /\ fpc = "u"
    /\ LET out == Conv2d(input_s, net.u[1], net.u[2], net.kernel_size)
       IN  IF ~out.ok THEN Fail(out.why)
           ELSE /\ input_s' = out
                /\ fpc' = "up"
                /\ UNCHANGED <<down_inputs, up_log, ferr>>
    /\ UNCHANGED <<net, x_in, testVars, foldVars>>

\* one iteration of "for d, i in zip(self.up, down_inputs[::-1])"
\* (models.py 79-97); after the last one forward returns to Unet2D.forward
UpStage ==
    /\ fpc = "up"
    /\ Len(up_log) < Min(Len(net.up), Len(down_inputs))
    /\ LET k == Len(up_log) + 1
           si == Len(down_inputs) + 1 - k
           skip == Reverse(down_inputs)[k]
           st == net.up[k]
           got == UpInput(input_s, skip, net.pooling)
           out == IF got.ok
                  THEN ConvTranspose2d(got, st[1], st[2], net.kernel_size)
                  ELSE got
       IN  IF ~out.ok THEN Fail(out.why)
           ELSE /\ input_s' = out
                /\ up_log' = Append(up_log,
                      [skip |-> si, declared |-> st[1], got |-> got.c,
                       out |-> out.c])
                /\ fpc' = IF k = Min(Len(net.up), Len(down_inputs))
                          THEN "seg" ELSE "up"
                /\ UNCHANGED <<down_inputs, ferr>>
    /\ UNCHANGED <<net, x_in, testVars, foldVars>>

\* Unet2D.forward after the autoencoder (models.py 161-165)
UnetForward ==
    /\ fpc = "seg"
    /\ LET out == SegHead(input_s, x_in.n, net.conv_filters[1],
                          net.n_outputs, net.training)
       IN  IF ~out.ok THEN Fail(out.why)
           ELSE /\ input_s' = out
                /\ fpc' = "done"
                /\ UNCHANGED <<down_inputs, up_log, ferr>>
    /\ UNCHANGED <<net, x_in, testVars, foldVars>>

NextNet == DownStage \/ Bottleneck \/ UpStage \/ UnetForward

\* ------------------------------------------------------------------------
\* Unet2D.test (models.py 171-236)
\* ------------------------------------------------------------------------
Stride == 256      \* the step of range(0, lim, 256)
MaxTiles == 2      \* axis extents go up to MaxTiles * Stride + 1
MaxCases == 2      \* longest list of mosaics given to test

\* range(0, lim, step) as a list
PyRange(lim, step) == [k \in 1..((lim + step - 1) \div step) |-> (k - 1) * step]

\* a plausible repair: every multiple of the stride below lim is kept
TileLimitsKeepAll(lim) == PyRange(lim, Stride) \o <<lim>>

\* list(range(0, lim, 256))[:-1] + [lim]
TileLimits(lim) == DropLast(PyRange(lim, Stride), 1) \o <<lim>>

\* itertools.product(range(a), range(b)), row-major, as 0-based pairs
Product(a, b) == [k \in 1..(a * b) |-> <<(k - 1) \div b, (k - 1) % b>>]

\* the parameters test() declares besides self
TestParams == {"data", "verbose"}

\* Python values that reach an index position carry their type
PyInt(v) == [t |-> "int", v |-> v]
PyList(v) == [t |-> "list", v |-> v]

\* limits[k] for a 0-based k: limits is a tuple of lists
LimitsItem(lims, k) == PyList(lims[k + 1])

\* what a[slice(lo, hi), ...] of numpy accepts as a slice bound
IsIndex(b) == b.t = "int"

Extents == {e \in {k * Stride + d : k \in 0..MaxTiles, d \in {-1, 0, 1}} : e >= 1}

Arrays ==
    UNION {[1..nd -> Extents] : nd \in 1..3}
    \cup {<<0>>, <<0, 1>>}

Calls ==
    {[kind |-> "ndarray", len |-> sh[1], shape |-> sh, kwargs |-> kw] :
        sh \in Arrays, kw \in {{}, {"verbose"}, {"patch_size"}}}
    \cup
    {[kind |-> "list", len |-> n, shape |-> sh, kwargs |-> kw] :
        n \in 0..MaxCases, sh \in [1..3 -> {1, Stride + 1}],
        kw \in {{}, {"verbose"}, {"patch_size"}}}

NoCall == [kind |-> "list", len |-> 0, shape |-> <<1, 1, 1>>, kwargs |-> {}]

TestIdle ==
    /\ call = NoCall
    /\ tpc = "idle"
    /\ terr = ""
    /\ case_i = 0
    /\ limits = <<>>
    /\ limits_product = <<>>
    /\ pi = 0
    /\ written = {}
    /\ forwards = 0
    /\ seg = <<>>

TestInit ==
    /\ call \in Calls
    /\ tpc = "call"
    /\ terr = ""
    /\ case_i = 0
    /\ limits = <<>>
    /\ limits_product = <<>>
    /\ pi = 0
    /\ written = {}
    /\ forwards = 0
    /\ seg = <<>>

TestRaise(why) ==
    /\ tpc' = "error"
    /\ terr' = why

\* binding the arguments, self.eval(), seg = list() (models.py 171-179)
TestCall ==
    /\ tpc = "call"
    /\ IF ~(call.kwargs \subseteq TestParams)
       THEN TestRaise("TypeError: unexpected keyword argument")
       ELSE tpc' = "case" /\ terr' = terr
    /\ UNCHANGED <<call, case_i, limits, limits_product, pi, written,
                   forwards, seg, netVars, foldVars>>

\* the head of "for i, im in enumerate(data)": the next case's limits and
\* index pairs, or the return when data is exhausted (models.py 181-194, 236)
CaseHead ==
    /\ tpc = "case"
    /\ IF case_i >= call.len
       THEN /\ tpc' = "returned"
            /\ UNCHANGED <<terr, limits, limits_product, pi, written>>
       ELSE IF call.kind # "ndarray"
       THEN /\ TestRaise("AttributeError: shape")
            /\ UNCHANGED <<limits, limits_product, pi, written>>
       ELSE LET lims == [ax \in 1..Len(call.shape) |->
                            TileLimits(call.shape[ax])]
            IN  IF Len(lims) < 2
                THEN /\ TestRaise("IndexError: limits[1]")
                     /\ limits' = lims
                     /\ UNCHANGED <<limits_product, pi, written>>
                ELSE /\ limits' = lims
                     /\ limits_product' = Product(Len(lims[1]), Len(lims[2]))
                     /\ pi' = 0
                     /\ written' = {}
                     /\ tpc' = "tile"
                     /\ terr' = terr
    /\ UNCHANGED <<call, case_i, forwards, seg, netVars, foldVars>>

\* one iteration of "for pi, (xi, xj) in enumerate(limits_product)"
\* (models.py 195-208); the last one also appends seg_i (235)
Tile ==
    /\ tpc = "tile"
    /\ pi < Len(limits_product)
    /\ LET xi == limits_product[pi + 1][1]
           xj == limits_product[pi + 1][2]
       IN  IF xi + 1 >= Len(limits) \/ xj + 1 >= Len(limits)
           THEN /\ TestRaise("IndexError: limits[xi + 1]")
                /\ UNCHANGED <<case_i, pi, written, forwards, seg>>
           ELSE IF ~(/\ IsIndex(LimitsItem(limits, xi))
                     /\ IsIndex(LimitsItem(limits, xi + 1))
                     /\ IsIndex(LimitsItem(limits, xj))
                     /\ IsIndex(LimitsItem(limits, xj + 1)))
           THEN /\ TestRaise("TypeError: slice indices must be integers")
                /\ UNCHANGED <<case_i, pi, written, forwards, seg>>
           ELSE LET region == <<LimitsItem(limits, xi).v,
                                LimitsItem(limits, xi + 1).v,
                                LimitsItem(limits, xj).v,
                                LimitsItem(limits, xj + 1).v>>
                IN  /\ forwards' = forwards + 1
                    /\ IF pi + 1 = Len(limits_product)
                       THEN /\ seg' = Append(seg, written \cup {region})
                            /\ case_i' = case_i + 1
                            /\ tpc' = "case"
                            /\ UNCHANGED <<pi, written>>
                       ELSE /\ written' = written \cup {region}
                            /\ pi' = pi + 1
                            /\ UNCHANGED <<seg, case_i, tpc>>
                    /\ terr' = terr
    /\ UNCHANGED <<call, limits, limits_product, netVars, foldVars>>

NextTest == TestCall \/ CaseHead \/ Tile

\* ------------------------------------------------------------------------
\* train_test_net (tree_detection.py 59-266)
\* ------------------------------------------------------------------------
MaxMosaics == 3    \* largest case id in the mosaics directory
DefaultRatio == 10 \* ratio=10 of the signature
ValSplitPct == 10  \* val_split = 0.1, in percent
Channels == 4      \* BGR mosaic + one DEM channel

Ids == 1..MaxMosaics
Sides == {7, 64}
Ratios == {1, DefaultRatio}

\* sorted(...) of a set of ids, as a list
RECURSIVE Sorted(_)
Sorted(S) ==
    IF S = {} THEN <<>>
    ELSE LET m == CHOOSE a \in S : \A b \in S : a <= b
         IN  <<m>> \o Sorted(S \ {m})

\* cases = [re.search(r'(\d+)', r).group() for r in gt_names]
Cases(d) == Sorted(d.gt)

\* s[:k] and s[k:] for a 0-based k >= 0
Upto(s, k) == SubSeq(s, 1, Min(k, Len(s)))
From(s, k) == SubSeq(s, k + 1, Len(s))

\* a plausible slip: the test mosaic stays in the pool
WithoutNone(s, k) == s

\* y[:i] + y[i + 1:]
Without(s, k) == Upto(s, k) \o From(s, k + 1)

\* a plausible slip: the validation fraction taken for the training one
NTrainSwapped(n) == (n * ValSplitPct) \div 100

\* int(n_samples * (1 - val_split))
NTrain(n) == (n * (100 - ValSplitPct)) \div 100

\* the artifact's key: '{net_name}.d{ratio}.unc.mosaic{case}.mdl'
ModelName(r, case) == <<r, case>>

\* net.load_model raises IOError when the file is not there
LoadFails(name, files) == name \notin files

\* a plausible slip: training runs whether or not the load succeeded
AfterLookupAlwaysTrain(failed) == "train"

\* try: load_model  except IOError: <train>  (tree_detection.py 157-160)
AfterLookup(failed) == IF failed THEN "train" ELSE "test"

\* a + b of Python: defined for two ints and for two lists
PyAdd(a, b) ==
    IF a.t = "int" /\ b.t = "int" THEN PyInt(a.v + b.v)
    ELSE IF a.t = "list" /\ b.t = "list" THEN PyList(a.v \o b.v)
    ELSE [t |-> "TypeError", v |-> <<>>]

\* test_x.shape[0] + [length // ratio for length in test_x.shape[1:]]
DownShape(sh, r) ==
    PyAdd(PyInt(sh[1]),
          PyList([k \in 1..(Len(sh) - 1) |-> sh[k + 1] \div r]))

\* yi, unci = net.test([downtest_x], patch_size=None): a list of one
\* mosaic, one keyword, the result unpacked into two names
RatioCall == [kind |-> "list", len |-> 1, kwargs |-> {"patch_size"}]

\* lines 251-258: the shapes of upyi[0] and upunci[0], or the exception
RatioPath(sh, r) ==
    IF DownShape(sh, r).t = "TypeError"
    THEN [err |-> "TypeError: int + list", pred |-> <<>>, unc |-> <<>>]
    ELSE IF ~(RatioCall.kwargs \subseteq TestParams)
    THEN [err |-> "TypeError: unexpected keyword argument",
          pred |-> <<>>, unc |-> <<>>]
    ELSE IF RatioCall.kind # "ndarray"
    THEN [err |-> "AttributeError: shape", pred |-> <<>>, unc |-> <<>>]
    ELSE IF RatioCall.len # 2
    THEN [err |-> "ValueError: unpack", pred |-> <<>>, unc |-> <<>>]
    ELSE [err |-> "", pred |-> SubSeq(sh, 2, Len(sh)),
          unc |-> SubSeq(sh, 2, Len(sh))]

FoldIdle ==
    /\ dir = [gt |-> {}, dem |-> {}, mosaic |-> {}]
    /\ shape = [h |-> 0, w |-> 0]
    /\ ratio = 0
    /\ disk = {}
    /\ pc = "idle"
    /\ err = ""
    /\ i = 0
    /\ fold = [test_x |-> 0, test_y |-> 0, train_x |-> <<>>,
               train_y |-> <<>>, d_train |-> <<>>, d_val |-> <<>>,
               l_train |-> <<>>, l_val |-> <<>>]
    /\ log = <<>>
    /\ outputs = {}

FoldInit ==
    /\ \E g \in SUBSET Ids, d \in SUBSET Ids, m \in SUBSET Ids :
          dir = [gt |-> g, dem |-> d, mosaic |-> m]
    /\ \E h \in Sides, w \in Sides : shape = [h |-> h, w |-> w]
    /\ ratio \in Ratios
    /\ \E have \in SUBSET Ids :
          disk = {ModelName(ratio, c) : c \in have}
                 \cup {ModelName(r, c) : r \in Ratios \ {ratio},
                                         c \in Ids \ have}
    /\ pc = "start"
    /\ err = ""
    /\ i = 0
    /\ fold = [test_x |-> 0, test_y |-> 0, train_x |-> <<>>,
               train_y |-> <<>>, d_train |-> <<>>, d_val |-> <<>>,
               l_train |-> <<>>, l_val |-> <<>>]
    /\ log = <<>>
    /\ outputs = {}

\* reading the directory (tree_detection.py 70-120): cv2.imread gives None
\* for a missing file; cvtColor(None) and None[..., 0] raise
LoadData ==
    /\ pc = "start"
    /\ IF ~(dir.gt \subseteq dir.mosaic)
       THEN pc' = "error" /\ err' = "cv2.error: cvtColor"
       ELSE IF ~(dir.gt \subseteq dir.dem)
       THEN pc' = "error" /\ err' = "TypeError: NoneType"
       ELSE pc' = "fold" /\ err' = err
    /\ UNCHANGED <<dir, shape, ratio, disk, i, fold, log, outputs,
                   netVars, testVars>>

\* the head of "for i, case in enumerate(cases)" and the split
\* (tree_detection.py 128-154); past the last case the function returns
FoldHead ==
    /\ pc = "fold"
    /\ IF i >= Len(Cases(dir))
       THEN pc' = "done" /\ fold' = fold
       ELSE /\ fold' = [fold EXCEPT
                    !.test_x = Cases(dir)[i + 1],
                    !.test_y = Cases(dir)[i + 1],
                    !.train_x = Without(Cases(dir), i),
                    !.train_y = Without(Cases(dir), i),
                    !.d_train = <<>>, !.d_val = <<>>,
                    !.l_train = <<>>, !.l_val = <<>>]
            /\ pc' = "lookup"
    /\ UNCHANGED <<dir, shape, ratio, disk, err, i, log, outputs,
                   netVars, testVars>>

\* try: net.load_model(...) except IOError (tree_detection.py 157-159)
Lookup ==
    /\ pc = "lookup"
    /\ LET name == ModelName(ratio, Cases(dir)[i + 1])
           failed == LoadFails(name, disk)
       IN  /\ log' = Append(log, [op |-> IF failed THEN "load_fail"
                                                   ELSE "load_ok",
                                  fold |-> i, name |-> name])
           /\ pc' = AfterLookup(failed)
    /\ UNCHANGED <<dir, shape, ratio, disk, err, i, fold, outputs,
                   netVars, testVars>>

\* the except branch: split, datasets, fit, save (tree_detection.py 161-230)
Train ==
    /\ pc = "train"
    /\ LET n_t_samples == NTrain(Len(fold.train_x))
           name == ModelName(ratio, Cases(dir)[i + 1])
       IN  /\ fold' = [fold EXCEPT
                    !.d_train = Upto(fold.train_x, n_t_samples),
                    !.d_val = From(fold.train_x, n_t_samples),
                    !.l_train = Upto(fold.train_y, n_t_samples),
                    !.l_val = From(fold.train_y, n_t_samples)]
           /\ log' = log \o <<[op |-> "fit", fold |-> i, name |-> name],
                              [op |-> "save", fold |-> i, name |-> name]>>
           /\ disk' = disk \cup {name}
    /\ pc' = "test"
    /\ UNCHANGED <<dir, shape, ratio, err, i, outputs, netVars, testVars>>

\* the test phase of the fold (tree_detection.py 251-266); a fold that
\* writes its two images is followed by the next fold
TestPhase ==
    /\ pc = "test"
    /\ LET case == Cases(dir)[i + 1]
           res == RatioPath(<<Channels, shape.h, shape.w>>, ratio)
       IN  /\ log' = Append(log, [op |-> "test", fold |-> i,
                                  name |-> ModelName(ratio, case)])
           /\ IF res.err # ""
              THEN /\ pc' = "error"
                   /\ err' = res.err
                   /\ UNCHANGED <<i, outputs>>
              ELSE /\ outputs' = outputs \cup
                          {[file |-> "pred", ratio |-> ratio, case |-> case,
                            shape |-> res.pred],
                           [file |-> "unc", ratio |-> ratio, case |-> case,
                            shape |-> res.unc]}
                   /\ i' = i + 1
                   /\ pc' = "fold"
                   /\ err' = err
    /\ UNCHANGED <<dir, shape, ratio, disk, fold, netVars, testVars>>

Next == LoadData \/ FoldHead \/ Lookup \/ Train \/ TestPhase

Init == NetIdle /\ TestIdle /\ FoldInit
Spec == Init /\ [][Next]_vars

InitNet == NetInit /\ TestIdle /\ FoldIdle
SpecNet == InitNet /\ [][NextNet]_vars

InitTest == NetIdle /\ TestInit /\ FoldIdle
SpecTest == InitTest /\ [][NextTest]_vars

\* ========================================================================
\* Properties
\* ========================================================================
StrictlyIncreasing(s) == \A k \in 1..(Len(s) - 1) : s[k] < s[k + 1]

\* C1: for every axis extent H >= 1 the boundary list of the tiling rule
\* starts at 0, is strictly increasing and ends at H, so that consecutive
\* pairs cover [0, H) without gap or overlap.
C1_Original ==
    \A ax \in 1..Len(limits) :
        call.shape[ax] >= 1 =>
            /\ limits[ax][1] = 0
            /\ StrictlyIncreasing(limits[ax])
            /\ limits[ax][Len(limits[ax])] = call.shape[ax]

\* every pixel of an h x w image lies in exactly one written region
ExactCover(regions, h, w) ==
    \A r \in 0..(h - 1), c \in 0..(w - 1) :
        Cardinality({g \in regions : /\ g[1] <= r /\ r < g[2]
                                     /\ g[3] <= c /\ c < g[4]}) = 1

\* C2: every (row_index, col_index) pair of the tile loop selects boundary
\* pairs that exist, and when test returns every pixel of every output has
\* been written exactly once.
C2_Original ==
    /\ tpc = "error" =>
          terr \notin {"IndexError: limits[xi + 1]",
                       "TypeError: slice indices must be integers"}
    /\ tpc = "returned" =>
          /\ Len(seg) = call.len
          /\ \A k \in 1..Len(seg) :
                Len(call.shape) >= 3 =>
                    ExactCover(seg[k], call.shape[2], call.shape[3])

\* C6: a call of test with patch_size=None processes each mosaic as one
\* tile (one forward pass per mosaic) and returns one result per mosaic.
C6_Original ==
    "patch_size" \in call.kwargs =>
        /\ tpc # "error"
        /\ tpc = "returned" =>
              Len(seg) = call.len /\ forwards = call.len

Depth == Len(net.conv_filters)

ShapeKept ==
    fpc = "done" => input_s = Shape(net.n_outputs, x_in.h, x_in.w)

\* C8 as stated: for an odd kernel and every H, W >= 1 the full forward
\* pass returns shape (N, n_outputs, H, W), pooling disabled or enabled.
C8_Original ==
    Odd(net.kernel_size) => fpc # "error" /\ ShapeKept

\* C8 amended: for an odd kernel the full forward pass returns shape
\* (N, n_outputs, H, W) with pooling disabled, and with pooling enabled
\* when H, W >= 2^(L-1); in training mode N*H*W must exceed 1.
C8_Amended ==
    (/\ Odd(net.kernel_size)
     /\ net.pooling => x_in.h >= Pow2(Depth - 1) /\ x_in.w >= Pow2(Depth - 1)
     /\ net.training => x_in.n * x_in.h * x_in.w > 1)
    => fpc # "error" /\ ShapeKept

C8_Witness ==
    /\ fpc = "done"
    /\ net.pooling
    /\ Depth = 3
    /\ Odd(net.kernel_size)
    /\ x_in.h # x_in.w

\* C9: L-1 down stages and L-1 up stages are built; forward pushes L-1 skip
\* buffers and the up path consumes them in reverse order, one per stage;
\* every up stage is declared with the channel count it receives, returns
\* the width of its skip buffer, and the final width is c0.
C9_Theorem ==
    /\ Len(net.down) = Depth - 1
    /\ Len(net.up) = Depth - 1
    /\ ferr # "channels"
    /\ fpc \in {"u", "up", "seg", "done"} => Len(down_inputs) = Depth - 1
    /\ \A k \in 1..Len(down_inputs) :
          down_inputs[k].c = net.conv_filters[k]
    /\ \A k \in 1..Len(up_log) :
          /\ up_log[k].skip = Depth - k
          /\ up_log[k].declared = up_log[k].got
          /\ up_log[k].out = down_inputs[up_log[k].skip].c
    /\ fpc = "seg" => Len(up_log) = Depth - 1
                      /\ input_s.c = net.conv_filters[1]
    /\ fpc = "done" => Len(up_log) = Depth - 1

C9_Witness ==
    /\ fpc = "done"
    /\ Depth = 3
    /\ Len(up_log) = 2
    /\ net.conv_filters[1] # net.conv_filters[2]
    /\ net.conv_filters[2] # net.conv_filters[3]

\* the operations logged for fold f, in order
FoldOps(f) ==
    LET OfFold(e) == e.fold = f
        sel == SelectSeq(log, OfFold)
    IN  [k \in 1..Len(sel) |-> sel[k].op]

IsPrefix(a, b) == Len(a) <= Len(b) /\ a = SubSeq(b, 1, Len(a))

TrainPath == <<"load_fail", "fit", "save", "test">>
SkipPath == <<"load_ok", "test">>

Tested(c) ==
    {k \in 1..Len(log) : log[k].op = "test" /\ log[k].name = ModelName(ratio, c)}

RunEnded == pc = "done" \/ (pc = "error" /\ log # <<>>)

\* C3: over one run of the fold loop each mosaic is the test case of
\* exactly one fold, and in fold i the pool holds every mosaic but mosaic
\* i, in order, for the inputs and for the masks.
C3_Original ==
    /\ pc \in {"lookup", "train", "test"} =>
          /\ fold.test_x = Cases(dir)[i + 1]
          /\ fold.train_x = SelectSeq(Cases(dir), LAMBDA c : c # fold.test_x)
          /\ fold.train_y = fold.train_x
    /\ RunEnded => \A c \in dir.gt : Cardinality(Tested(c)) = 1

\* C4: a fold trains (fit, save) exactly when the load of its artifact
\* fails; a successful load is followed by no fit and no save; the save is
\* under the fold's key and precedes the test; the fold reaches its test
\* phase exactly once on both branches.
C4_Theorem ==
    \A f \in 0..(Len(Cases(dir)) - 1) :
        /\ IsPrefix(FoldOps(f), TrainPath) \/ IsPrefix(FoldOps(f), SkipPath)
        /\ \A k \in 1..Len(log) :
              log[k].fold = f =>
                  log[k].name = ModelName(ratio, Cases(dir)[f + 1])
        /\ \A k \in 1..Len(log) :
              (log[k].fold = f /\ log[k].op = "save") => log[k].name \in disk
        /\ (f = i /\ pc = "train") => FoldOps(f) = <<"load_fail">>
        /\ (f = i /\ pc = "test") =>
              FoldOps(f) \in {<<"load_ok">>, <<"load_fail", "fit", "save">>}
        /\ (FoldOps(f) # <<>> /\ (f < i \/ pc \in {"done", "error"})) =>
              FoldOps(f) \in {TrainPath, SkipPath}

C4_Witness ==
    /\ FoldOps(i) = TrainPath
    /\ ModelName(ratio, fold.test_x) \in disk

Malformed(d) ==
    \/ d.gt # d.dem
    \/ d.gt # d.mosaic
    \/ Cardinality(d.gt) < 2

\* C5: on a malformed mosaic set (ids of the triples differ, or fewer than
\* 2 mosaics) the run ends in a fatal error before any fold: nothing is
\* loaded, trained or tested and the run does not end normally.
C5_Original ==
    Malformed(dir) =>
        /\ log = <<>>
        /\ pc \notin {"lookup", "train", "test", "done"}

\* C7: the test phase of a fold writes a prediction and an uncertainty map
\* of exactly the mosaic's spatial shape (H, W), or ends in a shape error.
C7_Original ==
    \A k \in 1..Len(log) :
        log[k].op = "test" =>
            \/ \A kind \in {"pred", "unc"} :
                  [file |-> kind, ratio |-> ratio,
                   case |-> Cases(dir)[log[k].fold + 1],
                   shape |-> <<shape.h, shape.w>>] \in outputs
            \/ err = "shape mismatch"

Range(s) == {s[k] : k \in 1..Len(s)}

Trained == \E k \in 1..Len(log) : log[k].op = "fit" /\ log[k].fold = i

SplitOk ==
    /\ fold.d_train # <<>>
    /\ fold.d_val # <<>>
    /\ Range(fold.d_train) \cap Range(fold.d_val) = {}
    /\ fold.d_train \o fold.d_val = fold.train_x
    /\ fold.l_train # <<>>
    /\ fold.l_val # <<>>
    /\ Range(fold.l_train) \cap Range(fold.l_val) = {}
    /\ fold.l_train \o fold.l_val = fold.train_y

\* C10 as stated: with at least 2 mosaics, in every fold that trains the
\* training and validation subsets are non-empty, disjoint and together
\* equal the pool.
C10_Original == (Cardinality(dir.gt) >= 2 /\ Trained) => SplitOk

\* C10 amended: the same with at least 3 mosaics (with exactly 2 the pool
\* holds one mosaic and the training subset is empty).
C10_Amended == (Cardinality(dir.gt) >= 3 /\ Trained) => SplitOk

C10_Witness == Cardinality(dir.gt) >= 3 /\ Trained /\ Len(fold.d_train) >= 1
=============================================================================
